---- MODULE Spec2Model ----
(***************************************************************************)
(* Track-event codec of gomidi: the variable length quantity codec, the    *)
(* event variant codecs, the status dispatcher / track decoder             *)
(* (Chunk.Events, Chunk.Track) and the track encoder (Track.Chunk).        *)
(*                                                                         *)
(* A byte is a natural number in 0..255, a Go slice of bytes is a          *)
(* sequence.  A uint32 is the pair <<hi, lo>> of its two 16 bit halves,    *)
(* so that the 32 bit wrap of the Go arithmetic is kept exactly.           *)
(***************************************************************************)
EXTENDS Integers, Sequences, FiniteSets, TLC

(***************************************************************************)
(* Bit operations on naturals.                                             *)
(***************************************************************************)
RECURSIVE Xor(_, _)
Xor(a, b) ==
    IF a = 0 THEN b
    ELSE IF b = 0 THEN a
    ELSE (((a % 2) + (b % 2)) % 2) + (2 * Xor(a \div 2, b \div 2))

RECURSIVE And(_, _)
And(a, b) ==
    IF a = 0 \/ b = 0 THEN 0
    ELSE ((a % 2) * (b % 2)) + (2 * And(a \div 2, b \div 2))

\* byte(x): conversion of an unsigned value to uint8
byte(x) == x % 256

\* uint16(x): conversion of an unsigned value to uint16
uint16(x) == x % 65536

(***************************************************************************)
(* uint32 as <<hi, lo>>, each half in 0..65535.                            *)
(***************************************************************************)
\* uint32(n) for a natural n below 2^31
uint32(n) == <<(n \div 65536) % 65536, n % 65536>>

\* u << 7 in 32 bits
U32Shl7(u) == <<((u[1] % 512) * 128) + (u[2] \div 512), (u[2] % 512) * 128>>

\* u >> 7
U32Shr7(u) == <<u[1] \div 128, ((u[1] % 128) * 512) + (u[2] \div 128)>>

\* u ^ x for a value x below 2^16
U32XorLow(u, x) == <<u[1], Xor(u[2], x)>>

\* u & 0x7F
U32Low7(u) == And(u[2], 127)

\* a < b
U32Less(a, b) == a[1] < b[1] \/ (a[1] = b[1] /\ a[2] < b[2])

\* int(u), used to slice with a uint32; defined while u is below 2^31
U32Int(u) == (u[1] * 65536) + u[2]

U32Zero == <<0, 0>>

(***************************************************************************)
(* Errors: nil or the message of the error the code returns.               *)
(***************************************************************************)
Nil == "nil"
ErrVLQ == "a variable length quantity should end with a byte with the most significant bit set to 0"
ErrExpectedEvent == "expected another event after delta time"
ErrDataByte == "received data byte without running status active"
ErrUnknownStatus == "unknown status byte encountered"
ErrChannel == "channel event expects data bytes"
ErrCommon == "system common event expects data bytes"
ErrExclusive == "given system exclusive event length exceeds available data length"
ErrMetaEnd == "end of data before meta event was identified"
ErrMeta == "given meta event length exceeds available data length"

\* bs[n:] of Go, for 0 <= n <= len(bs)
SliceFrom(bs, n) == SubSeq(bs, n + 1, Len(bs))

\* bs[:n] of Go
SliceTo(bs, n) == SubSeq(bs, 1, n)

(***************************************************************************)
(* VLQ codec.                                                              *)
(***************************************************************************)
\* the range loop of readVariableLengthInteger from byte i on
RECURSIVE readLoop(_, _, _)
readLoop(bs, i, result) ==
    IF i > Len(bs)
    THEN [result |-> U32Zero, bytesRead |-> 0, err |-> ErrVLQ]
    ELSE LET b == bs[i]
             r == U32XorLow(U32Shl7(result), And(b, 127))
         IN  IF b \div 128 = 0
             THEN [result |-> r, bytesRead |-> i, err |-> Nil]
             ELSE readLoop(bs, i + 1, r)

\* variant: bytesRead is counted behind the test of the high bit
readVariableLengthIntegerLateCount(bs) ==
    LET r == readLoop(bs, 1, U32Zero)
    IN  IF r.err = Nil THEN [r EXCEPT !.bytesRead = r.bytesRead - 1] ELSE r

\* variant: the error return leaves the named results as the loop left them
readVariableLengthIntegerBareReturn(bs) ==
    LET r == readLoop(bs, 1, U32Zero)
    IN  IF r.err = Nil THEN r ELSE [r EXCEPT !.bytesRead = Len(bs)]

readVariableLengthInteger(bs) == readLoop(bs, 1, U32Zero)

\* the for loop of writeVariableLengthValue
RECURSIVE writeLoop(_, _, _)
writeLoop(value, xor, data) ==
    LET b == Xor(U32Low7(value), xor)
        d == <<b>> \o data
        v == U32Shr7(value)
    IN  IF v = U32Zero THEN d ELSE writeLoop(v, 128, d)

\* variant: xor starts as 0x80
writeVariableLengthValueXorSet(value) == writeLoop(value, 128, <<>>)

\* variant: an empty leading group is written in front
writeVariableLengthValueLeadingGroup(value) == <<128>> \o writeLoop(value, 0, <<>>)

writeVariableLengthValue(value) == writeLoop(value, 0, <<>>)

\* writeVariableLengthInteger, the encoder the WriteTo methods call: the
\* minimal big-endian 7 bit group sequence, continuation bit on every byte
\* but the last
writeVariableLengthInteger(value) == writeVariableLengthValue(value)

(***************************************************************************)
(* Event types (EventType iota) and the event structs.                     *)
(***************************************************************************)
NoteOff == 0
NoteOn == 1
PolyphonicKeyPressure == 2
ControlChange == 3
ProgramChange == 4
ChannelPressure == 5
PitchWheelChange == 6
SystemExclusive == 7
SongPositionPointer == 8
SongSelect == 9
TuneRequest == 10
TimingClock == 11
Start == 12
Continue == 13
Stop == 14
ActiveSensing == 15
Meta == 16

\* nil of the Event interface, and nil of []Event
NoEvent == [type |-> "nil"]
NilEvents == <<"nil">>

ChannelEvent(deltaTime, eventType, Channel, Value1, Value2) ==
    [type |-> "ChannelEvent", deltaTime |-> deltaTime, eventType |-> eventType,
     Channel |-> Channel, Value1 |-> Value1, Value2 |-> Value2]

SystemCommonEvent(deltaTime, eventType, Value1, Value2) ==
    [type |-> "SystemCommonEvent", deltaTime |-> deltaTime,
     eventType |-> eventType, Value1 |-> Value1, Value2 |-> Value2]

SystemRealTimeEvent(deltaTime, eventType) ==
    [type |-> "SystemRealTimeEvent", deltaTime |-> deltaTime,
     eventType |-> eventType]

SystemExclusiveEvent(deltaTime, Data) ==
    [type |-> "SystemExclusiveEvent", deltaTime |-> deltaTime,
     eventType |-> SystemExclusive, Data |-> Data]

MetaEvent(deltaTime, MetaType, Data) ==
    [type |-> "MetaEvent", deltaTime |-> deltaTime, eventType |-> Meta,
     MetaType |-> MetaType, Data |-> Data]

\* the named MetaType constants
MetaTypes == {0, 1, 2, 3, 4, 5, 6, 7, 32, 47, 81, 84, 88, 89, 127}

(***************************************************************************)
(* Event variant decoders.  Each returns [event, bytesRead, err].          *)
(***************************************************************************)
\* variant: missing data bytes are read as 0
parseChannelEventPads(statusByte, deltaTime, eventType, numValues, data) ==
    LET d == data \o <<0, 0>>
    IN  [event |-> ChannelEvent(deltaTime, eventType, And(statusByte, 15),
                        IF numValues \in {1, 2} THEN d[1] ELSE 0,
                        IF numValues = 2 THEN d[2] ELSE 0),
         bytesRead |-> IF Len(data) < numValues THEN Len(data) ELSE numValues,
         err |-> Nil]

parseChannelEvent(statusByte, deltaTime, eventType, numValues, data) ==
    IF Len(data) < numValues
    THEN [event |-> NoEvent, bytesRead |-> 0, err |-> ErrChannel]
    ELSE [event |-> ChannelEvent(deltaTime, eventType, And(statusByte, 15),
                        IF numValues \in {1, 2} THEN data[1] ELSE 0,
                        IF numValues = 2 THEN data[2] ELSE 0),
          bytesRead |-> numValues, err |-> Nil]

\* variant: the second data byte is shifted by 8
combineValue1Shift8(r) ==
    IF r.err = Nil
    THEN [r EXCEPT !.event.Value1 =
              Xor(uint16(r.event.Value2 * 256), r.event.Value1)]
    ELSE r

\* the 14 bit combination of parsePitchWheelChange and
\* parseSongPositionPointer, applied when the inner parse succeeded
combineValue1(r) ==
    IF r.err = Nil
    THEN [r EXCEPT !.event.Value1 =
              Xor(uint16(r.event.Value2 * 128), r.event.Value1)]
    ELSE r

parsePitchWheelChange(statusByte, deltaTime, data) ==
    combineValue1(parseChannelEvent(statusByte, deltaTime, PitchWheelChange, 2, data))

parseSystemCommonEvent(deltaTime, eventType, numValues, data) ==
    IF Len(data) < numValues
    THEN [event |-> NoEvent, bytesRead |-> 0, err |-> ErrCommon]
    ELSE [event |-> SystemCommonEvent(deltaTime, eventType,
                        IF numValues \in {1, 2} THEN data[1] ELSE 0,
                        IF numValues = 2 THEN data[2] ELSE 0),
          bytesRead |-> numValues, err |-> Nil]

parseSongPositionPointer(statusByte, deltaTime, data) ==
    combineValue1(parseSystemCommonEvent(deltaTime, SongPositionPointer, 2, data))

parseSystemRealTimeEvent(deltaTime, eventType) ==
    [event |-> SystemRealTimeEvent(deltaTime, eventType), bytesRead |-> 0,
     err |-> Nil]

\* variant: the length test is <=
parseSystemExclusiveStrict(statusByte, deltaTime, data) ==
    LET len == readVariableLengthInteger(data)
        rest == SliceFrom(data, len.bytesRead)
    IN  IF len.err # Nil
        THEN [event |-> NoEvent, bytesRead |-> len.bytesRead, err |-> len.err]
        ELSE IF ~U32Less(len.result, uint32(Len(rest)))
        THEN [event |-> NoEvent, bytesRead |-> len.bytesRead, err |-> ErrExclusive]
        ELSE [event |-> SystemExclusiveEvent(deltaTime,
                            SliceTo(rest, U32Int(len.result))),
              bytesRead |-> len.bytesRead + U32Int(len.result), err |-> Nil]

parseSystemExclusive(statusByte, deltaTime, data) ==
    LET len == readVariableLengthInteger(data)
        rest == SliceFrom(data, len.bytesRead)
    IN  IF len.err # Nil
        THEN [event |-> NoEvent, bytesRead |-> len.bytesRead, err |-> len.err]
        ELSE IF U32Less(uint32(Len(rest)), len.result)
        THEN [event |-> NoEvent, bytesRead |-> len.bytesRead, err |-> ErrExclusive]
        ELSE [event |-> SystemExclusiveEvent(deltaTime,
                            SliceTo(rest, U32Int(len.result))),
              bytesRead |-> len.bytesRead + U32Int(len.result), err |-> Nil]

\* variant: bytesRead does not count the meta type byte
parseMetaNoOffset(statusByte, deltaTime, data) ==
    IF Len(data) = 0
    THEN [event |-> NoEvent, bytesRead |-> 0, err |-> ErrMetaEnd]
    ELSE LET metaType == data[1]
             len == readVariableLengthInteger(SliceFrom(data, 1))
             rest == SliceFrom(SliceFrom(data, 1), len.bytesRead)
         IN  IF len.err # Nil
             THEN [event |-> NoEvent, bytesRead |-> len.bytesRead, err |-> len.err]
             ELSE IF U32Less(uint32(Len(rest)), len.result)
             THEN [event |-> NoEvent, bytesRead |-> len.bytesRead, err |-> ErrMeta]
             ELSE [event |-> MetaEvent(deltaTime, metaType,
                                 SliceTo(rest, U32Int(len.result))),
                   bytesRead |-> len.bytesRead + U32Int(len.result),
                   err |-> Nil]

parseMeta(statusByte, deltaTime, data) ==
    IF Len(data) = 0
    THEN [event |-> NoEvent, bytesRead |-> 0, err |-> ErrMetaEnd]
    ELSE LET metaType == data[1]
             len == readVariableLengthInteger(SliceFrom(data, 1))
             rest == SliceFrom(SliceFrom(data, 1), len.bytesRead)
         IN  IF len.err # Nil
             THEN [event |-> NoEvent, bytesRead |-> len.bytesRead, err |-> len.err]
             ELSE IF U32Less(uint32(Len(rest)), len.result)
             THEN [event |-> NoEvent, bytesRead |-> len.bytesRead, err |-> ErrMeta]
             ELSE [event |-> MetaEvent(deltaTime, metaType,
                                 SliceTo(rest, U32Int(len.result))),
                   bytesRead |-> len.bytesRead + U32Int(len.result) + 1,
                   err |-> Nil]

\* eventTypeToParseFunctionMapping[eventType](statusByte, deltaTime, data)
parseFunc(eventType, statusByte, deltaTime, data) ==
    CASE eventType \in {NoteOff, NoteOn, PolyphonicKeyPressure, ControlChange} ->
             parseChannelEvent(statusByte, deltaTime, eventType, 2, data)
      [] eventType \in {ProgramChange, ChannelPressure} ->
             parseChannelEvent(statusByte, deltaTime, eventType, 1, data)
      [] eventType = PitchWheelChange ->
             parsePitchWheelChange(statusByte, deltaTime, data)
      [] eventType = SystemExclusive ->
             parseSystemExclusive(statusByte, deltaTime, data)
      [] eventType = SongPositionPointer ->
             parseSongPositionPointer(statusByte, deltaTime, data)
      [] eventType = SongSelect ->
             parseSystemCommonEvent(deltaTime, SongSelect, 1, data)
      [] eventType = TuneRequest ->
             parseSystemCommonEvent(deltaTime, TuneRequest, 0, data)
      [] eventType \in {TimingClock, Start, Continue, Stop, ActiveSensing} ->
             parseSystemRealTimeEvent(deltaTime, eventType)
      [] eventType = Meta ->
             parseMeta(statusByte, deltaTime, data)

(***************************************************************************)
(* The parse functions of the copy of the decoder with exported names      *)
(* (midi.go, first package clause), where they differ from the above.      *)
(***************************************************************************)
\* ParseChannelEvent: with two values only Value2 is assigned
ParseChannelEvent(statusByte, deltaTime, eventType, numValues, data) ==
    IF Len(data) < numValues
    THEN [event |-> NoEvent, bytesRead |-> 0, err |-> ErrChannel]
    ELSE [event |-> ChannelEvent(deltaTime, eventType, And(statusByte, 15),
                        IF numValues = 1 THEN data[1] ELSE 0,
                        IF numValues = 2 THEN data[2] ELSE 0),
          bytesRead |-> numValues, err |-> Nil]

ParsePitchWheelChange(statusByte, deltaTime, data) ==
    combineValue1(ParseChannelEvent(statusByte, deltaTime, PitchWheelChange, 2, data))

\* ParseSystemCommonEvent: with two values only Value2 is assigned
ParseSystemCommonEvent(deltaTime, eventType, numValues, data) ==
    IF Len(data) < numValues
    THEN [event |-> NoEvent, bytesRead |-> 0, err |-> ErrCommon]
    ELSE [event |-> SystemCommonEvent(deltaTime, eventType,
                        IF numValues = 1 THEN data[1] ELSE 0,
                        IF numValues = 2 THEN data[2] ELSE 0),
          bytesRead |-> numValues, err |-> Nil]

ParseSongPositionPointer(statusByte, deltaTime, data) ==
    combineValue1(ParseSystemCommonEvent(deltaTime, SongPositionPointer, 2, data))

\* eventTypeToParseFunctionMapping of that copy; ParseSystemExclusive,
\* ParseSystemRealTimeEvent and ParseMeta are the functions above
ParseFunc(eventType, statusByte, deltaTime, data) ==
    CASE eventType \in {NoteOff, NoteOn, PolyphonicKeyPressure, ControlChange} ->
             ParseChannelEvent(statusByte, deltaTime, eventType, 2, data)
      [] eventType \in {ProgramChange, ChannelPressure} ->
             ParseChannelEvent(statusByte, deltaTime, eventType, 1, data)
      [] eventType = PitchWheelChange ->
             ParsePitchWheelChange(statusByte, deltaTime, data)
      [] eventType = SongPositionPointer ->
             ParseSongPositionPointer(statusByte, deltaTime, data)
      [] eventType = SongSelect ->
             ParseSystemCommonEvent(deltaTime, SongSelect, 1, data)
      [] eventType = TuneRequest ->
             ParseSystemCommonEvent(deltaTime, TuneRequest, 0, data)
      [] OTHER -> parseFunc(eventType, statusByte, deltaTime, data)

(***************************************************************************)
(* Event variant encoders: the bytes WriteTo writes to the writer.         *)
(***************************************************************************)
\* variant: numBytes stays 3 for the one value kinds
ChannelEventWriteToThreeBytes(e) ==
    LET nibble == CASE e.eventType = NoteOff -> 8
                    [] e.eventType = NoteOn -> 9
                    [] e.eventType = PolyphonicKeyPressure -> 10
                    [] e.eventType = ControlChange -> 11
                    [] e.eventType = ProgramChange -> 12
                    [] e.eventType = ChannelPressure -> 13
                    [] e.eventType = PitchWheelChange -> 14
                    [] OTHER -> 0
        d1 == IF e.eventType = PitchWheelChange
              THEN byte(And(e.Value1, 127))
              ELSE byte(e.Value1)
        d2 == IF e.eventType = PitchWheelChange
              THEN byte(e.Value1 \div 128)
              ELSE byte(e.Value2)
        d0 == Xor(byte(nibble * 16), byte(e.Channel))
    IN  writeVariableLengthInteger(e.deltaTime) \o <<d0, d1, d2>>

ChannelEventWriteTo(e) ==
    LET nibble == CASE e.eventType = NoteOff -> 8
                    [] e.eventType = NoteOn -> 9
                    [] e.eventType = PolyphonicKeyPressure -> 10
                    [] e.eventType = ControlChange -> 11
                    [] e.eventType = ProgramChange -> 12
                    [] e.eventType = ChannelPressure -> 13
                    [] e.eventType = PitchWheelChange -> 14
                    [] OTHER -> 0
        d1 == IF e.eventType = PitchWheelChange
              THEN byte(And(e.Value1, 127))
              ELSE byte(e.Value1)
        d2 == IF e.eventType = PitchWheelChange
              THEN byte(e.Value1 \div 128)
              ELSE byte(e.Value2)
        numBytes == IF e.eventType \in {ProgramChange, ChannelPressure}
                    THEN 2 ELSE 3
        d0 == Xor(byte(nibble * 16), byte(e.Channel))
    IN  writeVariableLengthInteger(e.deltaTime) \o SliceTo(<<d0, d1, d2>>, numBytes)

SystemCommonEventWriteTo(e) ==
    LET data == CASE e.eventType = SongPositionPointer ->
                         <<242, byte(And(e.Value1, 127)), byte(e.Value1 \div 128)>>
                  [] e.eventType = SongSelect -> <<243, byte(e.Value1)>>
                  [] e.eventType = TuneRequest -> <<246>>
                  [] OTHER -> <<0>>
    IN  writeVariableLengthInteger(e.deltaTime) \o data

SystemRealTimeEventWriteTo(e) ==
    LET statusByte == CASE e.eventType = TimingClock -> 248
                        [] e.eventType = Start -> 250
                        [] e.eventType = Continue -> 251
                        [] e.eventType = Stop -> 252
                        [] e.eventType = ActiveSensing -> 254
                        [] OTHER -> 0
    IN  writeVariableLengthValue(e.deltaTime) \o <<statusByte>>

SystemExclusiveEventWriteTo(e) ==
    writeVariableLengthInteger(e.deltaTime) \o <<240>>
        \o writeVariableLengthInteger(uint32(Len(e.Data))) \o e.Data

MetaEventWriteTo(e) ==
    LET metaType == IF e.MetaType \in MetaTypes THEN e.MetaType ELSE 0
    IN  writeVariableLengthInteger(e.deltaTime) \o <<255, metaType>>
            \o writeVariableLengthInteger(uint32(Len(e.Data))) \o e.Data

\* event.WriteTo(&buf): the method of the event's dynamic type
WriteTo(e) ==
    CASE e.type = "ChannelEvent" -> ChannelEventWriteTo(e)
      [] e.type = "SystemCommonEvent" -> SystemCommonEventWriteTo(e)
      [] e.type = "SystemRealTimeEvent" -> SystemRealTimeEventWriteTo(e)
      [] e.type = "SystemExclusiveEvent" -> SystemExclusiveEventWriteTo(e)
      [] e.type = "MetaEvent" -> MetaEventWriteTo(e)

\* the events of t written in order, a channel event without its status byte
\* when the channel event before it wrote the same one
RECURSIVE chunkAfter(_, _)
chunkAfter(t, prev) ==
    IF t = <<>>
    THEN <<>>
    ELSE LET e == Head(t)
             w == WriteTo(e)
             n == Len(writeVariableLengthInteger(e.deltaTime))
             status == IF e.type = "ChannelEvent" THEN w[n + 1] ELSE 0
         IN  (IF status >= 128 /\ status = prev
              THEN SliceTo(w, n) \o SliceFrom(w, n + 1)
              ELSE w) \o chunkAfter(Tail(t), status)

\* variant: Track.Chunk with running status compression
ChunkRunningStatus(t) == chunkAfter(t, 0)

\* Track.Chunk: the buffer after every event of t wrote itself, in order
RECURSIVE Chunk(_)
Chunk(t) == IF t = <<>> THEN <<>> ELSE WriteTo(Head(t)) \o Chunk(Tail(t))

(***************************************************************************)
(* Status dispatcher: the two decisions of one iteration of Chunk.Events.  *)
(***************************************************************************)
\* variant: the byte in status position is skipped in both branches
selectStatusSkipsByte(d, active, rsByte) ==
    IF d[1] \div 128 = 1
    THEN [statusByte |-> d[1], data |-> SliceFrom(d, 1), err |-> Nil]
    ELSE IF ~active
    THEN [statusByte |-> d[1], data |-> d, err |-> ErrDataByte]
    ELSE [statusByte |-> rsByte, data |-> SliceFrom(d, 1), err |-> Nil]

\* variant: runningStatusActive is not tested
selectStatusNoTest(d, active, rsByte) ==
    IF d[1] \div 128 = 1
    THEN [statusByte |-> d[1], data |-> SliceFrom(d, 1), err |-> Nil]
    ELSE [statusByte |-> rsByte, data |-> d, err |-> Nil]

\* variant: a byte with the high bit set is not consumed
selectStatusKeepsByte(d, active, rsByte) ==
    IF d[1] \div 128 = 1
    THEN [statusByte |-> d[1], data |-> d, err |-> Nil]
    ELSE IF ~active
    THEN [statusByte |-> d[1], data |-> d, err |-> ErrDataByte]
    ELSE [statusByte |-> rsByte, data |-> d, err |-> Nil]

\* status byte selection: a byte with the high bit set is consumed as the
\* status byte, a data byte stands for the running status byte and stays
selectStatus(d, active, rsByte) ==
    IF d[1] \div 128 = 1
    THEN [statusByte |-> d[1], data |-> SliceFrom(d, 1), err |-> Nil]
    ELSE IF ~active
    THEN [statusByte |-> d[1], data |-> d, err |-> ErrDataByte]
    ELSE [statusByte |-> rsByte, data |-> d, err |-> Nil]

\* the cases of the switch on the status byte: the parse function chosen (by
\* event type) and what the case does to the running status
statusCase(statusByte) ==
    LET case(t, rs) == [eventType |-> t, rs |-> rs, err |-> Nil]
    IN  CASE statusByte \div 16 = 8 -> case(NoteOff, "set")
          [] statusByte \div 16 = 9 -> case(NoteOn, "set")
          [] statusByte \div 16 = 10 -> case(PolyphonicKeyPressure, "set")
          [] statusByte \div 16 = 11 -> case(ControlChange, "set")
          [] statusByte \div 16 = 12 -> case(ProgramChange, "set")
          [] statusByte \div 16 = 13 -> case(ChannelPressure, "set")
          [] statusByte \div 16 = 14 -> case(PitchWheelChange, "set")
          [] statusByte = 240 -> case(SystemExclusive, "clear")
          [] statusByte = 242 -> case(SongPositionPointer, "clear")
          [] statusByte = 243 -> case(SongSelect, "clear")
          [] statusByte = 246 -> case(TuneRequest, "clear")
          [] statusByte = 247 -> case(SystemExclusive, "clear")
          [] statusByte = 248 -> case(TimingClock, "keep")
          [] statusByte = 250 -> case(Start, "keep")
          [] statusByte = 251 -> case(Continue, "keep")
          [] statusByte = 252 -> case(Stop, "keep")
          [] statusByte = 254 -> case(ActiveSensing, "keep")
          [] statusByte = 255 -> case(Meta, "keep")
          [] OTHER -> [eventType |-> Meta, rs |-> "keep", err |-> ErrUnknownStatus]

\* the running status after the case c taken for statusByte
runningStatusAfter(c, statusByte, active, rsByte) ==
    [eventType |-> c.eventType, err |-> c.err,
     active |-> CASE c.rs = "set" -> TRUE
                  [] c.rs = "clear" -> FALSE
                  [] OTHER -> active,
     rsByte |-> IF c.rs = "set" THEN statusByte ELSE rsByte]

\* variant: the real time cases clear the running status
switchStatusRealTimeClears(statusByte, active, rsByte) ==
    LET c == statusCase(statusByte)
    IN  runningStatusAfter(
            IF statusByte \in {248, 250, 251, 252, 254}
            THEN [c EXCEPT !.rs = "clear"] ELSE c,
            statusByte, active, rsByte)

\* variant: the system exclusive continuation case leaves the running status
switchStatusF7Keeps(statusByte, active, rsByte) ==
    LET c == statusCase(statusByte)
    IN  runningStatusAfter(
            IF statusByte = 247 THEN [c EXCEPT !.rs = "keep"] ELSE c,
            statusByte, active, rsByte)

\* variant: 0xF9 and 0xFD are taken for real time status bytes
switchStatusRealTimeRange(statusByte, active, rsByte) ==
    runningStatusAfter(
        IF statusByte \in {249, 253}
        THEN [eventType |-> TimingClock, rs |-> "keep", err |-> Nil]
        ELSE statusCase(statusByte),
        statusByte, active, rsByte)

\* variant: the system common cases set the running status
switchStatusCommonSets(statusByte, active, rsByte) ==
    LET c == statusCase(statusByte)
    IN  runningStatusAfter(
            IF statusByte \in {242, 243, 246}
            THEN [c EXCEPT !.rs = "set"] ELSE c,
            statusByte, active, rsByte)

\* variant: the meta case clears the running status
switchStatusMetaClears(statusByte, active, rsByte) ==
    LET c == statusCase(statusByte)
    IN  runningStatusAfter(
            IF statusByte = 255 THEN [c EXCEPT !.rs = "clear"] ELSE c,
            statusByte, active, rsByte)

\* the switch on the status byte
switchStatus(statusByte, active, rsByte) ==
    runningStatusAfter(statusCase(statusByte), statusByte, active, rsByte)

(***************************************************************************)
(* Inputs.                                                                 *)
(***************************************************************************)
\* longest payload enumerated byte by byte
MaxLen == 3
\* most wire segments concatenated into a payload
MaxSegments == 3
\* most events of a track handed to the encoder
MaxTrack == 2
\* longest buffer handed to readVariableLengthInteger alone
MaxVLQLen == 5

\* all sequences over S of length at most n
RECURSIVE SeqsUpTo(_, _)
SeqsUpTo(S, n) ==
    IF n = 0 THEN {<<>>}
    ELSE LET r == SeqsUpTo(S, n - 1)
         IN  r \cup {Append(t, x) : t \in {u \in r : Len(u) = n - 1}, x \in S}

\* all concatenations of at most n members of S
RECURSIVE ConcatsUpTo(_, _)
ConcatsUpTo(S, n) ==
    IF n = 0 THEN {<<>>}
    ELSE LET r == ConcatsUpTo(S, n - 1)
         IN  r \cup {t \o x : t \in r, x \in S}

\* bytes of every role: data bytes, VLQ bytes, one status byte per family
PayloadBytes == {0, 1, 64, 129, 192, 240, 241, 242, 246, 247, 248, 255}

\* wire forms: delta-time and event, with and without a status byte,
\* complete and truncated
Segments ==
    { <<0, 144, 64, 96>>,        \* NoteOn channel 0
      <<0, 65, 97>>,             \* two data bytes, no status byte
      <<129, 0, 193, 5>>,        \* delta 128, ProgramChange channel 1
      <<0, 224, 44, 2>>,         \* PitchWheelChange 300
      <<0, 240, 1, 125>>,        \* system exclusive, one byte
      <<0, 247, 0>>,             \* system exclusive continuation, empty
      <<0, 242, 44, 2>>,         \* SongPositionPointer 300
      <<0, 246>>,                \* TuneRequest
      <<0, 248>>,                \* TimingClock
      <<0, 255, 47, 0>>,         \* meta EndOfTrack
      <<0, 255, 9, 1, 65>>,      \* meta of an unnamed type
      <<128, 0, 176, 7, 127>> }  \* non-minimal delta, ControlChange

\* one payload per status byte: delta-time 0, the status byte, two more bytes
StatusProbes == { <<0, b, 1, 0>> : b \in 128..255 }

\* payloads of single events at the edges of the variant decoders
EdgeProbes ==
    { <<0, 144, 64, 96, 0, 65>>,     \* running status, one data byte missing
      <<0, 144, 192, 240>>,          \* NoteOn, data bytes with the high bit set
      <<0, 224, 255, 255>>,          \* PitchWheelChange, the same
      <<0, 242, 255, 255>>,          \* SongPositionPointer, the same
      <<0, 243, 200>>,               \* SongSelect, the same
      <<0, 240, 2, 1>>,              \* system exclusive, length 2, one byte
      <<0, 240, 128, 1, 7>>,         \* system exclusive, two byte length
      <<0, 247, 2, 1, 2, 0, 248>>,   \* system exclusive, then TimingClock
      <<0, 255, 1, 129>>,            \* meta, length without last byte
      <<0, 255, 1, 2, 65>>,          \* meta, length 2, one byte
      <<0, 255, 1, 128, 1, 65>>,     \* meta, two byte length
      <<0, 255, 200, 2, 1, 2, 0, 248>>, \* meta, then TimingClock
      <<0, 240, 255, 255, 127, 1>>,  \* system exclusive, length 2097151
      <<0, 255, 1, 255, 255, 127, 1>>, \* meta, length 2097151
      <<144, 128, 128, 128, 0, 248>>, \* delta-time of 5 bytes, TimingClock
      <<0, 144, 64, 96, 0, 248, 129, 0>> } \* two events, then a delta-time

Payloads ==
    SeqsUpTo(PayloadBytes, MaxLen) \cup ConcatsUpTo(Segments, MaxSegments)
    \cup StatusProbes \cup EdgeProbes

\* well-formed events: channel 0..15, 7 bit data values, 14 bit pitch wheel
\* and song position values, delta-times in [0, 0x0FFFFFFF]
WellFormedEvents ==
    { ChannelEvent(uint32(0), NoteOn, 0, 64, 96),
      ChannelEvent(uint32(128), NoteOff, 15, 127, 0),
      ChannelEvent(uint32(0), PolyphonicKeyPressure, 1, 1, 2),
      ChannelEvent(uint32(16383), ControlChange, 0, 7, 127),
      ChannelEvent(uint32(0), ProgramChange, 3, 5, 0),
      ChannelEvent(uint32(1), ChannelPressure, 0, 127, 0),
      ChannelEvent(uint32(0), PitchWheelChange, 0, 300, 2),
      ChannelEvent(uint32(268435455), PitchWheelChange, 2, 16383, 127),
      SystemCommonEvent(uint32(0), SongPositionPointer, 300, 2),
      SystemCommonEvent(uint32(0), SongSelect, 3, 0),
      SystemCommonEvent(uint32(5), TuneRequest, 0, 0),
      SystemRealTimeEvent(uint32(0), TimingClock),
      SystemRealTimeEvent(uint32(0), Start),
      SystemRealTimeEvent(uint32(0), Continue),
      SystemRealTimeEvent(uint32(0), Stop),
      SystemRealTimeEvent(uint32(1000000), ActiveSensing),
      SystemExclusiveEvent(uint32(0), <<>>),
      SystemExclusiveEvent(uint32(0), <<125, 1>>),
      MetaEvent(uint32(0), 47, <<>>),
      MetaEvent(uint32(0), 1, <<65>>),
      MetaEvent(uint32(0), 9, <<66>>),
      MetaEvent(uint32(96), 81, <<7, 161, 32>>) }

\* events a caller can compose that are not well-formed: an event type the
\* struct does not encode, a channel above 15
OtherEvents ==
    { ChannelEvent(uint32(0), Meta, 0, 1, 2),
      ChannelEvent(uint32(0), NoteOn, 97, 64, 96),
      SystemRealTimeEvent(uint32(0), NoteOn) }

\* a pitch wheel event for every 14 bit value
PitchEvents ==
    { ChannelEvent(uint32(0), PitchWheelChange, 0, v, 0) : v \in 0..16383 }

Tracks ==
    SeqsUpTo(WellFormedEvents \cup OtherEvents, MaxTrack)
    \cup { <<e>> : e \in PitchEvents }

\* values of up to four 7 bit groups, the vectors of the tests included
VLQGroups == {0, 1, 127}

VLQValues ==
    { uint32((((((a * 128) + b) * 128) + c) * 128) + d) :
          a \in VLQGroups, b \in VLQGroups, c \in VLQGroups, d \in VLQGroups }
    \cup { uint32(n) : n \in {128, 1000, 1152, 16383, 16384, 1000000,
                              2097151, 2097152, 268435455} }

VLQBytes == {0, 104, 127, 128, 255}

VLQBuffers ==
    SeqsUpTo(VLQBytes, MaxVLQLen)
    \cup { <<255, 127>>, <<135, 104>>, <<189, 132, 64>>, <<255, 255>> }
    \cup { <<255, 255, 255, 255, 255, 0>>,
           <<128, 128, 128, 128, 128, 128, 1>> }

(***************************************************************************)
(* State.                                                                  *)
(***************************************************************************)
VARIABLES
    exported,             \* TRUE when Chunk.Events is the copy that calls
                          \* the exported parse functions
    pc,                   \* position: "chunk", "events", "returned", "written",
                          \* "write", "readback", "read", "done"
    track,                \* Track.Events, the encoder's input
    buf,                  \* the bytes.Buffer of Track.Chunk
    cData,                \* Chunk.Data, the decoder's input
    data,                 \* the remaining buffer of Chunk.Events
    runningStatusActive,
    runningStatusByte,
    events,               \* the events appended so far
    consumed,             \* per appended event, the bytes it was read from
    retEvents,            \* the []Event Chunk.Events returned
    retErr,               \* the error Chunk.Events returned
    value,                \* argument of writeVariableLengthValue
    vlqData,              \* its result
    bs,                   \* argument of readVariableLengthInteger
    vlq                   \* its results

vars == <<exported, pc, track, buf, cData, data, runningStatusActive, runningStatusByte,
          events, consumed, retEvents, retErr, value, vlqData, bs, vlq>>

decoderVars == <<cData, data, runningStatusActive, runningStatusByte, events,
                 consumed, retEvents, retErr>>

vlqVars == <<value, vlqData, bs, vlq>>

NoVLQ == [result |-> U32Zero, bytesRead |-> 0, err |-> Nil]

\* the locals of Chunk.Events at its first statement, for chunk data d
EventsEntry(d) ==
    /\ cData = d
    /\ data = d
    /\ runningStatusActive = FALSE
    /\ runningStatusByte = 0
    /\ events = <<>>
    /\ consumed = <<>>
    /\ retEvents = NilEvents
    /\ retErr = Nil

VLQIdle ==
    /\ value = U32Zero
    /\ vlqData = <<>>
    /\ bs = <<>>
    /\ vlq = NoVLQ

(***************************************************************************)
(* Chunk.Events (Chunk.Track): one action per way an iteration ends.       *)
(***************************************************************************)
\* One iteration of the for loop on buffer d with running status (active,
\* rsByte): how it ends (exit), the error it returns, and the locals after it.
iteration(d, active, rsByte) ==
    LET \* deltaTime, bytesRead, err := readVariableLengthInteger(data)
        delta == readVariableLengthInteger(d)
        \* data = data[bytesRead:]
        afterDelta == SliceFrom(d, delta.bytesRead)
        \* the status byte in force and the buffer the parse function gets
        sel == selectStatus(afterDelta, active, rsByte)
        \* the case of the switch taken
        sw == switchStatus(sel.statusByte, active, rsByte)
        \* event, bytesRead, err = parseFunc(statusByte, deltaTime, data)
        parsed == IF exported
                  THEN ParseFunc(sw.eventType, sel.statusByte, delta.result, sel.data)
                  ELSE parseFunc(sw.eventType, sel.statusByte, delta.result, sel.data)
        stop(exit, err, rest, a, b) ==
            [exit |-> exit, err |-> err, data |-> rest, active |-> a,
             rsByte |-> b, event |-> NoEvent, read |-> <<>>]
    IN  IF delta.err # Nil
        THEN stop("delta", delta.err, d, active, rsByte)
        ELSE IF Len(afterDelta) = 0
        THEN stop("end", ErrExpectedEvent, afterDelta, active, rsByte)
        ELSE IF sel.err # Nil
        THEN stop("data", sel.err, sel.data, active, rsByte)
        ELSE IF sw.err # Nil
        THEN stop("status", sw.err, sel.data, active, rsByte)
        ELSE IF parsed.err # Nil
        THEN stop("parse", parsed.err, sel.data, sw.active, sw.rsByte)
        ELSE [exit |-> "event", err |-> Nil,
              data |-> SliceFrom(sel.data, parsed.bytesRead),
              active |-> sw.active, rsByte |-> sw.rsByte,
              event |-> parsed.event,
              read |-> [delta |-> SliceTo(d, delta.bytesRead),
                        status |-> SliceTo(afterDelta,
                                           Len(afterDelta) - Len(sel.data)),
                        body |-> SliceTo(sel.data, parsed.bytesRead)]]

\* variant: return events, err
ReturnErrWithEvents(err) ==
    /\ pc' = "returned"
    /\ retEvents' = events
    /\ retErr' = err

\* variant: a buffer that ends behind a delta-time ends the track
ReturnErrEndsTrack(err) ==
    /\ pc' = "returned"
    /\ retEvents' = (IF err = ErrExpectedEvent THEN events ELSE NilEvents)
    /\ retErr' = (IF err = ErrExpectedEvent THEN Nil ELSE err)

\* return nil, err
ReturnErr(err) ==
    /\ pc' = "returned"
    /\ retEvents' = NilEvents
    /\ retErr' = err

\* the return of an iteration it that ends with an error
Fails(it) ==
    /\ data' = it.data
    /\ runningStatusActive' = it.active
    /\ runningStatusByte' = it.rsByte
    /\ ReturnErr(it.err)
    /\ UNCHANGED <<exported, track, buf, cData, events, consumed, vlqVars>>

\* readVariableLengthInteger fails on the delta-time
DeltaTimeFails ==
    LET it == iteration(data, runningStatusActive, runningStatusByte)
    IN  pc = "events" /\ it.exit = "delta" /\ Fails(it)

\* the buffer ends behind the delta-time
ExpectedAnotherEvent ==
    LET it == iteration(data, runningStatusActive, runningStatusByte)
    IN  pc = "events" /\ it.exit = "end" /\ Fails(it)

\* a data byte in status position, running status not active
DataByteWithoutRunningStatus ==
    LET it == iteration(data, runningStatusActive, runningStatusByte)
    IN  pc = "events" /\ it.exit = "data" /\ Fails(it)

\* the default case of the switch
UnknownStatusByte ==
    LET it == iteration(data, runningStatusActive, runningStatusByte)
    IN  pc = "events" /\ it.exit = "status" /\ Fails(it)

\* the parse function returns an error
ParseFails ==
    LET it == iteration(data, runningStatusActive, runningStatusByte)
    IN  pc = "events" /\ it.exit = "parse" /\ Fails(it)

\* the event is appended; the loop goes on, or breaks on an empty buffer and
\* the events are returned
EventDecoded ==
    LET it == iteration(data, runningStatusActive, runningStatusByte)
    IN  /\ pc = "events"
        /\ it.exit = "event"
        /\ runningStatusActive' = it.active
        /\ runningStatusByte' = it.rsByte
        /\ events' = Append(events, it.event)
        /\ consumed' = Append(consumed, it.read)
        /\ data' = it.data
        /\ IF Len(it.data) = 0
           THEN /\ pc' = "returned"
                /\ retEvents' = events'
                /\ retErr' = Nil
           ELSE UNCHANGED <<pc, retEvents, retErr>>
        /\ UNCHANGED <<exported, track, buf, cData, vlqVars>>

(***************************************************************************)
(* Decoding a payload, then Track.Chunk of the decoded track.              *)
(***************************************************************************)
Init ==
    /\ exported = FALSE
    /\ pc = "events"
    /\ \E d \in Payloads : EventsEntry(d)
    /\ track = <<>>
    /\ buf = <<>>
    /\ VLQIdle

\* Track{Events: events}.Chunk() of the track Chunk.Events returned
TrackChunk ==
    /\ pc = "returned"
    /\ retErr = Nil
    /\ track' = retEvents
    /\ buf' = Chunk(retEvents)
    /\ pc' = "written"
    /\ UNCHANGED <<exported, decoderVars, vlqVars>>

Next ==
    \/ DeltaTimeFails
    \/ ExpectedAnotherEvent
    \/ DataByteWithoutRunningStatus
    \/ UnknownStatusByte
    \/ ParseFails
    \/ EventDecoded
    \/ TrackChunk

Spec == Init /\ [][Next]_vars

(***************************************************************************)
(* Decoding a payload with the copy of Chunk.Events that calls the         *)
(* exported parse functions.                                               *)
(***************************************************************************)
InitExported ==
    /\ exported = TRUE
    /\ pc = "events"
    /\ \E d \in Payloads : EventsEntry(d)
    /\ track = <<>>
    /\ buf = <<>>
    /\ VLQIdle

NextExported ==
    \/ DeltaTimeFails
    \/ ExpectedAnotherEvent
    \/ DataByteWithoutRunningStatus
    \/ UnknownStatusByte
    \/ ParseFails
    \/ EventDecoded

SpecExported == InitExported /\ [][NextExported]_vars

(***************************************************************************)
(* Track.Chunk of a composed track, then decoding of the chunk.            *)
(***************************************************************************)
InitEnc ==
    /\ exported = FALSE
    /\ pc = "chunk"
    /\ track \in Tracks
    /\ buf = <<>>
    /\ EventsEntry(<<>>)
    /\ VLQIdle

\* t.Chunk(), then chunk.Events() on the chunk it returned
EncodeTrack ==
    /\ pc = "chunk"
    /\ buf' = Chunk(track)
    /\ cData' = buf'
    /\ data' = buf'
    /\ pc' = "events"
    /\ UNCHANGED <<exported, track, runningStatusActive, runningStatusByte,
                   events, consumed, retEvents, retErr, vlqVars>>

NextEnc ==
    \/ EncodeTrack
    \/ DeltaTimeFails
    \/ ExpectedAnotherEvent
    \/ DataByteWithoutRunningStatus
    \/ UnknownStatusByte
    \/ ParseFails
    \/ EventDecoded

SpecEnc == InitEnc /\ [][NextEnc]_vars

(***************************************************************************)
(* The VLQ codec alone.                                                    *)
(***************************************************************************)
InitVLQ ==
    /\ exported = FALSE
    /\ track = <<>>
    /\ buf = <<>>
    /\ EventsEntry(<<>>)
    /\ vlqData = <<>>
    /\ vlq = NoVLQ
    /\ \/ pc = "write" /\ value \in VLQValues /\ bs = <<>>
       \/ pc = "read" /\ value = U32Zero /\ bs \in VLQBuffers

\* data := writeVariableLengthValue(value)
WriteVLQ ==
    /\ pc = "write"
    /\ vlqData' = writeVariableLengthValue(value)
    /\ pc' = "readback"
    /\ UNCHANGED <<exported, track, buf, decoderVars, value, bs, vlq>>

\* readVariableLengthInteger(data) on the bytes just written
ReadBackVLQ ==
    /\ pc = "readback"
    /\ bs' = vlqData
    /\ vlq' = readVariableLengthInteger(vlqData)
    /\ pc' = "done"
    /\ UNCHANGED <<exported, track, buf, decoderVars, value, vlqData>>

\* v, n, err := readVariableLengthInteger(bs)
ReadVLQ ==
    /\ pc = "read"
    /\ vlq' = readVariableLengthInteger(bs)
    /\ pc' = "done"
    /\ UNCHANGED <<exported, track, buf, decoderVars, value, vlqData, bs>>

NextVLQ ==
    \/ WriteVLQ
    \/ ReadBackVLQ
    \/ ReadVLQ

SpecVLQ == InitVLQ /\ [][NextVLQ]_vars

(***************************************************************************)
(* Properties of the VLQ codec, under SpecVLQ.                             *)
(***************************************************************************)
\* the 7 bit groups of a uint32, most significant first (4 + 4 * 7 bits)
U32Groups(u) ==
    << u[1] \div 4096,
       (u[1] \div 32) % 128,
       ((u[1] % 32) * 4) + (u[2] \div 16384),
       (u[2] \div 128) % 128,
       u[2] % 128 >>

\* a group sequence without its leading zero groups: two sequences denote the
\* same number exactly when these agree
RECURSIVE StripZeros(_)
StripZeros(g) ==
    IF g # <<>> /\ Head(g) = 0 THEN StripZeros(Tail(g)) ELSE g

\* the index of the first byte of b with the high bit clear, 0 if there is none
FirstClear(b) ==
    IF \E i \in 1..Len(b) : b[i] < 128
    THEN CHOOSE i \in 1..Len(b) : b[i] < 128 /\ \A j \in 1..(i - 1) : b[j] >= 128
    ELSE 0

\* the low 7 bits of the first n bytes of b
LowGroups(b, n) == [i \in 1..n |-> b[i] % 128]

\* the groups of the number denoted by g, reduced modulo 2^32
Mod32Groups(g) ==
    LET p == <<0, 0, 0, 0, 0>> \o g
        l == SubSeq(p, Len(p) - 4, Len(p))
    IN  <<l[1] % 16, l[2], l[3], l[4], l[5]>>

\* C1: for every value v in the range written and read back,
\* readVariableLengthInteger(writeVariableLengthValue(v)) returns v, the number
\* of bytes written, and no error.
C1_RoundTrip ==
    (pc = "done" /\ vlqData # <<>>) =>
        vlq = [result |-> value, bytesRead |-> Len(vlqData), err |-> Nil]

C1_Witness ==
    /\ pc = "done"
    /\ value = uint32(1000000)
    /\ vlqData = <<189, 132, 64>>
    /\ vlq.bytesRead = 3

C10_NoTerminator ==
    (pc = "done" /\ FirstClear(bs) = 0) =>
        vlq = [result |-> U32Zero, bytesRead |-> 0, err |-> ErrVLQ]

C10_Witness ==
    /\ pc = "done"
    /\ bs = <<255, 255>>
    /\ vlq.err = ErrVLQ
    /\ vlq.bytesRead = 0

(***************************************************************************)
(* Properties of the track decoder, under Spec.                            *)
(***************************************************************************)
\* the delta-time the next iteration reads
NextDelta == readVariableLengthInteger(data)

\* the loop is about to run and a byte stands behind a well-formed delta-time
AtStatusPosition ==
    /\ pc = "events"
    /\ NextDelta.err = Nil
    /\ Len(data) > NextDelta.bytesRead

\* the buffer behind the delta-time, and its first byte
BehindDelta == SliceFrom(data, NextDelta.bytesRead)

StatusPosition == data[NextDelta.bytesRead + 1]

\* kind, channel and data byte count a channel status byte stands for
KindOf(b) == (b \div 16) - 8

ChannelOf(b) == b % 16

NumValuesOf(b) == IF b \div 16 \in {12, 13} THEN 1 ELSE 2

\* the status byte a decoded channel event was read with
StatusOf(e) == ((e.eventType + 8) * 16) + e.Channel

RealTimeTypes == {TimingClock, Start, Continue, Stop, ActiveSensing}

CommonTypes == {SystemExclusive, SongPositionPointer, SongSelect, TuneRequest}

Last(s) == s[Len(s)]

\* C2, the step: with running status active and a data byte in status
\* position, the iteration decodes a channel event of the kind and channel of
\* the running status byte, with the data byte as first data value, consumes
\* the delta-time and the data bytes only, and leaves the running status; it
\* fails only when the data bytes of that kind are not all there.
C2_Step ==
    (AtStatusPosition /\ StatusPosition < 128 /\ runningStatusActive) =>
        IF Len(BehindDelta) < NumValuesOf(runningStatusByte)
        THEN pc' = "returned" /\ retErr' = ErrChannel
        ELSE LET e == Last(events')
             IN  /\ events' = Append(events, e)
                 /\ e.type = "ChannelEvent"
                 /\ e.eventType = KindOf(runningStatusByte)
                 /\ e.Channel = ChannelOf(runningStatusByte)
                 /\ e.deltaTime = NextDelta.result
                 /\ IF e.eventType = PitchWheelChange
                    THEN e.Value1 = Xor(BehindDelta[2] * 128, BehindDelta[1])
                    ELSE e.Value1 = BehindDelta[1]
                 /\ data' = SliceFrom(BehindDelta, NumValuesOf(runningStatusByte))
                 /\ runningStatusActive'
                 /\ runningStatusByte' = runningStatusByte

\* C2, the example: [0, 0x90, 0x40, 0x60, 0, 0x41, 0x61] decodes to two NoteOn
\* events on channel 0 with data (0x40, 0x60) and (0x41, 0x61).
C2_Example ==
    (cData = <<0, 144, 64, 96, 0, 65, 97>> /\ pc = "returned") =>
        /\ retErr = Nil
        /\ retEvents = << ChannelEvent(uint32(0), NoteOn, 0, 64, 96),
                          ChannelEvent(uint32(0), NoteOn, 0, 65, 97) >>

\* C2: running status reuse, in every step and on the example.
C2_RunningStatusReuse == [][C2_Step]_vars /\ []C2_Example

C2_Witness ==
    /\ pc = "returned"
    /\ cData = <<0, 144, 64, 96, 0, 65, 97>>
    /\ Len(retEvents) = 2
    /\ consumed[2].status = <<>>

\* the index of the last event of evs whose type is not in skip, 0 if none
RECURSIVE LastNotIn(_, _)
LastNotIn(evs, skip) ==
    IF evs = <<>> THEN 0
    ELSE IF Last(evs).eventType \notin skip THEN Len(evs)
    ELSE LastNotIn(SubSeq(evs, 1, Len(evs) - 1), skip)

\* running status is active with byte b exactly when the last decoded event
\* whose type is not in skip is a channel event read with status byte b
RunningStatusRule(skip) ==
    (pc = "events" \/ (pc = "returned" /\ retErr = Nil)) =>
        LET i == LastNotIn(events, skip)
        IN  IF i # 0 /\ events[i].type = "ChannelEvent"
            THEN runningStatusActive /\ runningStatusByte = StatusOf(events[i])
            ELSE ~runningStatusActive

\* after a system common or system exclusive event running status is off,
\* and a data byte in status position behind it fails the decode
ClearedAfterCommon ==
    (pc = "events" /\ events # <<>> /\ Last(events).eventType \in CommonTypes) =>
        /\ ~runningStatusActive
        /\ (AtStatusPosition /\ StatusPosition < 128) =>
               iteration(data, runningStatusActive, runningStatusByte).err
                   = ErrDataByte

\* C3 as stated: the running status is that of the most recent event that was
\* not a system real-time event.
C3_SkipRealTime == RunningStatusRule(RealTimeTypes) /\ ClearedAfterCommon

\* C3 amended: the running status is that of the most recent event that was
\* neither a system real-time event nor a meta event (a meta event leaves the
\* running status as it is); system common and system exclusive status bytes
\* clear it.
C3_SkipRealTimeAndMeta ==
    RunningStatusRule(RealTimeTypes \cup {Meta}) /\ ClearedAfterCommon

C3_Witness ==
    /\ pc = "events"
    /\ Len(events) = 2
    /\ events[1].type = "ChannelEvent"
    /\ events[2].eventType = SystemExclusive
    /\ ~runningStatusActive
    /\ AtStatusPosition
    /\ StatusPosition < 128

\* C4: a data byte in status position while running status is not active ends
\* the decode with the data byte error and no events, at the first event and
\* at any later one.
C4_Step ==
    (AtStatusPosition /\ StatusPosition < 128 /\ ~runningStatusActive) =>
        /\ pc' = "returned"
        /\ retErr' = ErrDataByte
        /\ retEvents' = NilEvents

C4_DataByteFails == [][C4_Step]_vars

C4_Witness ==
    /\ pc = "returned"
    /\ retErr = ErrDataByte
    /\ events # <<>>
    /\ Last(events).eventType = TuneRequest

\* C5, the step: an iteration that reads a system real-time status byte
\* appends the event and leaves runningStatusActive and runningStatusByte.
C5_Step ==
    (AtStatusPosition /\ StatusPosition \in {248, 250, 251, 252, 254}) =>
        /\ Len(events') = Len(events) + 1
        /\ Last(events').type = "SystemRealTimeEvent"
        /\ runningStatusActive' = runningStatusActive
        /\ runningStatusByte' = runningStatusByte

\* C5, the consequence: a channel event read without a status byte directly
\* behind a real-time event has the kind and channel of the channel event in
\* front of the real-time event.
C5_BehindRealTime ==
    \A i \in 3..Len(events) :
        (/\ consumed[i].status = <<>>
         /\ events[i - 1].type = "SystemRealTimeEvent"
         /\ events[i - 2].type = "ChannelEvent") =>
            /\ events[i].type = "ChannelEvent"
            /\ events[i].eventType = events[i - 2].eventType
            /\ events[i].Channel = events[i - 2].Channel

\* C5: system real-time status bytes are transparent to running status.
C5_RealTimeTransparent == [][C5_Step]_vars /\ []C5_BehindRealTime

C5_Witness ==
    /\ Len(events) = 3
    /\ events[1].eventType = NoteOn
    /\ events[2].eventType = TimingClock
    /\ consumed[3].status = <<>>
    /\ events[3].eventType = NoteOn

\* C8: the decode returns the complete event sequence and no error, with the
\* whole buffer read, or an error and nil; an iteration that fails returns at
\* once, and nothing is decoded after it.
C8_Returned ==
    pc = "returned" =>
        IF retErr = Nil
        THEN retEvents = events /\ data = <<>>
        ELSE retEvents = NilEvents

C8_Step ==
    /\ (pc = "events"
        /\ iteration(data, runningStatusActive, runningStatusByte).err # Nil) =>
           (pc' = "returned" /\ retErr' # Nil /\ retEvents' = NilEvents
            /\ events' = events)
    /\ (pc = "returned" /\ retErr # Nil) => UNCHANGED vars

C8_AllOrNothing == [][C8_Step]_vars /\ []C8_Returned

C8_Witness ==
    /\ pc = "returned"
    /\ retErr # Nil
    /\ Len(events) = 2
    /\ retEvents = NilEvents

(***************************************************************************)
(* Properties of decoding and encoding together.                           *)
(***************************************************************************)
\* a VLQ as writeVariableLengthValue writes it: no leading 0x80 byte, at most
\* four bytes
MinimalVLQ(b) == Len(b) <= 4 /\ (Len(b) = 1 \/ b[1] # 128)

\* the bytes of the length VLQ of a decoded system exclusive or meta event e
\* read from c
LengthBytes(e, c) ==
    IF e.type = "MetaEvent"
    THEN SubSeq(c.body, 2, Len(c.body) - Len(e.Data))
    ELSE SliceTo(c.body, Len(c.body) - Len(e.Data))

\* event e was read from bytes c in the form the encoder writes
EncoderForm(e, c) ==
    /\ c.status # <<>>
    /\ MinimalVLQ(c.delta)
    /\ e.type = "SystemExclusiveEvent" =>
           c.status = <<240>> /\ MinimalVLQ(LengthBytes(e, c))
    /\ e.type = "MetaEvent" =>
           e.MetaType \in MetaTypes /\ MinimalVLQ(LengthBytes(e, c))
    /\ e.eventType \in {PitchWheelChange, SongPositionPointer} =>
           \A i \in 1..Len(c.body) : c.body[i] < 128

SameEvent(a, b) ==
    /\ a.type = b.type
    /\ a.eventType = b.eventType
    /\ a.deltaTime = b.deltaTime
    /\ a.type = "ChannelEvent" =>
           /\ a.Channel = b.Channel
           /\ a.Value1 = b.Value1
           /\ (a.eventType \in {NoteOff, NoteOn, PolyphonicKeyPressure,
                                ControlChange} => a.Value2 = b.Value2)
    /\ (a.type = "SystemCommonEvent"
           /\ a.eventType \in {SongPositionPointer, SongSelect}) => a.Value1 = b.Value1
    /\ a.type = "SystemExclusiveEvent" => a.Data = b.Data
    /\ a.type = "MetaEvent" => a.MetaType = b.MetaType /\ a.Data = b.Data

\* C7: for every track of well-formed events, decoding its chunk succeeds and
\* returns as many events, the i-th the same as the i-th of the track.
C7_EncodeDecode ==
    (pc = "returned" /\ \A i \in 1..Len(track) : track[i] \in WellFormedEvents) =>
        /\ retErr = Nil
        /\ Len(retEvents) = Len(track)
        /\ \A i \in 1..Len(track) : SameEvent(retEvents[i], track[i])

(***************************************************************************)
(* Further properties of the VLQ codec, under SpecVLQ.                     *)
(***************************************************************************)
\* C11: for a buffer of any length without a byte whose high bit is clear
\* among its first 5 bytes, readVariableLengthInteger returns the error, value
\* 0 and bytesRead 0, also when such a byte comes later.
C11_Capped ==
    (pc = "done" /\ \A i \in 1..Len(bs) : i <= 5 => bs[i] >= 128) =>
        vlq = [result |-> U32Zero, bytesRead |-> 0, err |-> ErrVLQ]

\* C12: every value readVariableLengthInteger returns without error was read
\* from 1 to 4 bytes, is at most 0x0FFFFFFF and is the number the 7 bit groups
\* of the bytes read denote.
C12_Range ==
    (pc = "done" /\ vlq.err = Nil) =>
        /\ vlq.bytesRead \in 1..4
        /\ vlq.result[1] < 4096
        /\ StripZeros(U32Groups(vlq.result))
               = StripZeros(LowGroups(bs, vlq.bytesRead))

\* C13: for every value v up to 0x0FFFFFFF, writeVariableLengthValue(v) is 1
\* to 4 bytes, the 7 bit groups of v from its first nonzero group on (one zero
\* group for 0), most significant first, the high bit set on every byte but
\* the last; 0, 16383, 1000 and 1000000 give the bytes of the tests.
C13_Minimal ==
    (pc \in {"readback", "done"} /\ vlqData # <<>> /\ value[1] < 4096) =>
        LET n == Len(vlqData)
        IN  /\ n \in 1..4
            /\ n = 1 \/ vlqData[1] # 128
            /\ \A i \in 1..(n - 1) : vlqData[i] >= 128
            /\ vlqData[n] < 128
            /\ LowGroups(vlqData, n) =
                   IF value = U32Zero THEN <<0>> ELSE StripZeros(U32Groups(value))
            /\ value = uint32(0) => vlqData = <<0>>
            /\ value = uint32(16383) => vlqData = <<255, 127>>
            /\ value = uint32(1000) => vlqData = <<135, 104>>
            /\ value = uint32(1000000) => vlqData = <<189, 132, 64>>

C13_Witness ==
    /\ pc = "readback"
    /\ value = uint32(268435455)
    /\ vlqData = <<255, 255, 255, 127>>

(***************************************************************************)
(* Properties of the status dispatch and the variant decoders, under Spec. *)
(***************************************************************************)
UnknownStatusBytes == {241, 244, 245, 249, 253}

\* the event variant a status byte belongs to
VariantOf(b) ==
    CASE b < 240 -> "ChannelEvent"
      [] b \in {240, 247} -> "SystemExclusiveEvent"
      [] b \in {242, 243, 246} -> "SystemCommonEvent"
      [] b \in {248, 250, 251, 252, 254} -> "SystemRealTimeEvent"
      [] b = 255 -> "MetaEvent"
      [] OTHER -> "none"

\* the errors the decoder of a variant returns
VariantErrors(v) ==
    CASE v = "ChannelEvent" -> {ErrChannel}
      [] v = "SystemCommonEvent" -> {ErrCommon}
      [] v = "SystemExclusiveEvent" -> {ErrVLQ, ErrExclusive}
      [] v = "MetaEvent" -> {ErrMetaEnd, ErrVLQ, ErrMeta}
      [] OTHER -> {}

\* C14, the step: an iteration that reads a byte with the high bit set in
\* status position fails with the unknown status byte error and no events
\* when the byte is 0xF1, 0xF4, 0xF5, 0xF9 or 0xFD; for every other byte it
\* appends an event of the one variant the byte belongs to, or fails with an
\* error of the decoder of that variant.
C14_Step ==
    (AtStatusPosition /\ StatusPosition >= 128) =>
        IF StatusPosition \in UnknownStatusBytes
        THEN /\ pc' = "returned"
             /\ retErr' = ErrUnknownStatus
             /\ retEvents' = NilEvents
        ELSE IF Len(events') = Len(events) + 1
        THEN /\ events' = Append(events, Last(events'))
             /\ Last(events').type = VariantOf(StatusPosition)
             /\ retErr' = Nil
        ELSE /\ events' = events
             /\ pc' = "returned"
             /\ retErr' \in VariantErrors(VariantOf(StatusPosition))
             /\ retEvents' = NilEvents

C14_UnknownStatus == [][C14_Step]_vars

C14_Witness ==
    /\ pc = "returned"
    /\ cData = <<0, 253, 1, 0>>
    /\ retErr = ErrUnknownStatus
    /\ retEvents = NilEvents

\* the status byte the next iteration decodes with, and the buffer its parse
\* function gets
EffectiveStatus ==
    IF StatusPosition >= 128 THEN StatusPosition ELSE runningStatusByte

DataBehindStatus ==
    IF StatusPosition >= 128 THEN SliceFrom(BehindDelta, 1) ELSE BehindDelta

\* the next iteration decodes with a channel status byte
AtChannelStatus ==
    /\ AtStatusPosition
    /\ \/ StatusPosition \in 128..239
       \/ StatusPosition < 128 /\ runningStatusActive

\* C15, the step: an iteration that decodes with channel status byte s and
\* finds the data bytes of its kind appends a channel event of the kind of the
\* high nibble of s on channel s & 0x0F; ProgramChange and ChannelPressure
\* consume 1 data byte, held in Value1, the other kinds 2, held in Value1 and
\* Value2, PitchWheelChange with Value1 then combined from both.
C15_Step ==
    (AtChannelStatus /\ Len(DataBehindStatus) >= NumValuesOf(EffectiveStatus)) =>
        LET s == EffectiveStatus
            d == DataBehindStatus
            n == NumValuesOf(s)
            e == Last(events')
        IN  /\ Len(events') = Len(events) + 1
            /\ e.type = "ChannelEvent"
            /\ e.eventType = KindOf(s)
            /\ e.Channel = ChannelOf(s)
            /\ Last(consumed').body = SliceTo(d, n)
            /\ data' = SliceFrom(d, n)
            /\ IF n = 1
               THEN e.Value1 = d[1]
               ELSE /\ e.Value2 = d[2]
                    /\ e.Value1 = IF e.eventType = PitchWheelChange
                                  THEN Xor(uint16(d[2] * 128), d[1])
                                  ELSE d[1]

C15_ChannelDecode == [][C15_Step]_vars

\* C16, the step: an iteration that decodes with a channel status byte, read
\* from the buffer or taken from the running status, and finds fewer data
\* bytes than the kind requires (1 for ProgramChange and ChannelPressure, 2
\* for the other kinds) ends the decode with the channel event error and no
\* events.
C16_Step ==
    (AtChannelStatus /\ Len(DataBehindStatus) < NumValuesOf(EffectiveStatus)) =>
        /\ pc' = "returned"
        /\ retErr' = ErrChannel
        /\ retEvents' = NilEvents
        /\ events' = events

C16_TruncatedChannelEvent == [][C16_Step]_vars

C16_Witness ==
    /\ pc = "returned"
    /\ cData = <<0, 144, 64, 96, 0, 65>>
    /\ Len(events) = 1
    /\ data = <<65>>
    /\ retErr = ErrChannel
    /\ retEvents = NilEvents

(***************************************************************************)
(* Properties of single event variants.                                    *)
(***************************************************************************)
\* C17: under SpecEnc, a pitch wheel event with combined value v in
\* [0, 16383] of a track of well-formed events is written with the data bytes
\* v & 0x7F and v >> 7, and decoding them gives the combined value v back.
C17_PitchBend ==
    \A i \in 1..Len(events) :
        (/\ i <= Len(track)
         /\ \A j \in 1..i : track[j] \in WellFormedEvents \/ track[j] \in PitchEvents
         /\ track[i].type = "ChannelEvent"
         /\ track[i].eventType = PitchWheelChange) =>
            LET v == track[i].Value1
            IN  /\ consumed[i].body = <<And(v, 127), v \div 128>>
                /\ events[i].eventType = PitchWheelChange
                /\ events[i].Value1 = v
                /\ events[i].Value1 =
                       (consumed[i].body[2] * 128) + consumed[i].body[1]

C17_Witness ==
    /\ pc = "returned"
    /\ track = <<ChannelEvent(uint32(0), PitchWheelChange, 0, 300, 0)>>
    /\ cData = <<0, 224, 44, 2>>
    /\ retErr = Nil
    /\ retEvents[1].Value1 = 300

\* C18: under Spec, in every event of a track Chunk.Events returned, Value1
\* and Value2 of a channel event and Value1 of a SongSelect event are at most
\* 127, Value1 of a PitchWheelChange or SongPositionPointer event is at most
\* 16383.
C18_BitWidth ==
    (pc = "returned" /\ retErr = Nil) =>
        \A i \in 1..Len(retEvents) :
            LET e == retEvents[i]
            IN  /\ e.type = "ChannelEvent" =>
                    /\ e.Value2 <= 127
                    /\ e.Value1 <= IF e.eventType = PitchWheelChange
                                   THEN 16383 ELSE 127
                /\ (e.type = "SystemCommonEvent" /\ e.eventType = SongSelect) =>
                       e.Value1 <= 127
                /\ (e.type = "SystemCommonEvent"
                       /\ e.eventType = SongPositionPointer) => e.Value1 <= 16383

\* the iteration ends the decode with error err and no events
FailsWith(err) ==
    /\ pc' = "returned"
    /\ retErr' = err
    /\ retEvents' = NilEvents
    /\ events' = events

\* the iteration appends an event of variant type with payload payload, read
\* from the first n bytes of d behind its status byte
AppendsPayload(type, payload, d, n) ==
    /\ Len(events') = Len(events) + 1
    /\ Last(events').type = type
    /\ Last(events').Data = payload
    /\ Last(consumed').body = SliceTo(d, n)
    /\ data' = SliceFrom(d, n)

\* C19, the step: an iteration that reads status byte 0xF0 or 0xF7 reads a
\* VLQ length L behind it; it fails when the VLQ is malformed or fewer than L
\* bytes follow the length; otherwise it appends a system exclusive event
\* whose payload is the next L bytes and consumes the bytes of the length and
\* L more; with L = 0 the payload is empty.
C19_Step ==
    (AtStatusPosition /\ StatusPosition \in {240, 247}) =>
        LET d == SliceFrom(BehindDelta, 1)
            len == readVariableLengthInteger(d)
            rest == SliceFrom(d, len.bytesRead)
            L == len.result[2]
        IN  IF len.err # Nil
            THEN FailsWith(ErrVLQ)
            ELSE IF len.result[1] > 0 \/ Len(rest) < L
            THEN FailsWith(ErrExclusive)
            ELSE /\ AppendsPayload("SystemExclusiveEvent", SubSeq(rest, 1, L),
                                   d, len.bytesRead + L)
                 /\ L = 0 => Last(events').Data = <<>>

C19_SystemExclusiveDecode == [][C19_Step]_vars

C19_Witness ==
    /\ pc = "returned"
    /\ cData = <<0, 247, 2, 1, 2, 0, 248>>
    /\ retErr = Nil
    /\ Len(retEvents) = 2
    /\ retEvents[1].Data = <<1, 2>>
    /\ consumed[1].body = <<2, 1, 2>>

\* C20, the step: an iteration that reads status byte 0xFF fails when no meta
\* type byte follows, when the length VLQ behind the type byte is malformed,
\* or when fewer than L bytes follow the length; otherwise it appends a meta
\* event with that type byte and the next L bytes as payload and consumes 1
\* byte, the bytes of the length and L more; with L = 0 the payload is empty.
C20_Step ==
    (AtStatusPosition /\ StatusPosition = 255) =>
        LET d == SliceFrom(BehindDelta, 1)
            len == readVariableLengthInteger(SliceFrom(d, 1))
            rest == SliceFrom(d, 1 + len.bytesRead)
            L == len.result[2]
        IN  IF Len(d) = 0
            THEN FailsWith(ErrMetaEnd)
            ELSE IF len.err # Nil
            THEN FailsWith(ErrVLQ)
            ELSE IF len.result[1] > 0 \/ Len(rest) < L
            THEN FailsWith(ErrMeta)
            ELSE /\ AppendsPayload("MetaEvent", SubSeq(rest, 1, L),
                                   d, 1 + len.bytesRead + L)
                 /\ Last(events').MetaType = d[1]
                 /\ L = 0 => Last(events').Data = <<>>

C20_MetaDecode == [][C20_Step]_vars

C20_Witness ==
    /\ pc = "returned"
    /\ cData = <<0, 255, 200, 2, 1, 2, 0, 248>>
    /\ retErr = Nil
    /\ Len(retEvents) = 2
    /\ retEvents[1].MetaType = 200
    /\ retEvents[1].Data = <<1, 2>>
    /\ consumed[1].body = <<200, 2, 1, 2>>

(***************************************************************************)
(* Properties of the encoders.                                             *)
(***************************************************************************)
\* buffer b starts with the bytes w
StartsWith(b, w) == Len(b) >= Len(w) /\ SliceTo(b, Len(w)) = w

\* C21: under SpecEnc, the chunk of a track whose first event is a meta event
\* starts with the VLQ of its delta-time, 0xFF, its meta type byte whatever
\* its value, the VLQ of the length of its payload, and the payload.
C21_MetaEncode ==
    (pc # "chunk" /\ track # <<>> /\ track[1].type = "MetaEvent") =>
        LET e == track[1]
        IN  StartsWith(buf, writeVariableLengthValue(e.deltaTime)
                                \o <<255, e.MetaType>>
                                \o writeVariableLengthValue(uint32(Len(e.Data)))
                                \o e.Data)

\* C22: under Spec, the chunk of a decoded track whose first event is a system
\* exclusive event starts with the VLQ of its delta-time, the status byte the
\* event was read with (0xF0 or 0xF7), the VLQ of the length of its payload,
\* and the payload.
C22_SystemExclusiveEncode ==
    (pc = "written" /\ events[1].type = "SystemExclusiveEvent") =>
        LET e == events[1]
        IN  StartsWith(buf, writeVariableLengthValue(e.deltaTime)
                                \o consumed[1].status
                                \o writeVariableLengthValue(uint32(Len(e.Data)))
                                \o e.Data)

\* the status byte the encoding of event e starts with
ExplicitStatus(e) ==
    CASE e.type = "ChannelEvent" -> StatusOf(e)
      [] e.type = "SystemCommonEvent" ->
             (CASE e.eventType = SongPositionPointer -> 242
                [] e.eventType = SongSelect -> 243
                [] e.eventType = TuneRequest -> 246)
      [] e.type = "SystemRealTimeEvent" ->
             (CASE e.eventType = TimingClock -> 248
                [] e.eventType = Start -> 250
                [] e.eventType = Continue -> 251
                [] e.eventType = Stop -> 252
                [] e.eventType = ActiveSensing -> 254)
      [] e.type = "SystemExclusiveEvent" -> 240
      [] e.type = "MetaEvent" -> 255

\* the number of bytes the encoding of event e has behind its status byte
BodyLength(e) ==
    CASE e.type = "ChannelEvent" ->
             (IF e.eventType \in {ProgramChange, ChannelPressure} THEN 1 ELSE 2)
      [] e.type = "SystemCommonEvent" ->
             (CASE e.eventType = SongPositionPointer -> 2
                [] e.eventType = SongSelect -> 1
                [] e.eventType = TuneRequest -> 0)
      [] e.type = "SystemRealTimeEvent" -> 0
      [] e.type = "SystemExclusiveEvent" ->
             Len(writeVariableLengthValue(uint32(Len(e.Data)))) + Len(e.Data)
      [] e.type = "MetaEvent" ->
             1 + Len(writeVariableLengthValue(uint32(Len(e.Data)))) + Len(e.Data)

\* the data bytes of channel event e
ChannelData(e) ==
    CASE e.eventType = PitchWheelChange -> <<e.Value1 % 128, e.Value1 \div 128>>
      [] e.eventType \in {ProgramChange, ChannelPressure} -> <<e.Value1>>
      [] OTHER -> <<e.Value1, e.Value2>>

\* b is, for each event of t in order, the VLQ of its delta-time, its status
\* byte with the high bit set, and its data bytes
RECURSIVE ExplicitEncoding(_, _)
ExplicitEncoding(t, b) ==
    IF t = <<>>
    THEN b = <<>>
    ELSE LET e == Head(t)
             v == writeVariableLengthValue(e.deltaTime)
             n == Len(v) + 1 + BodyLength(e)
         IN  /\ Len(b) >= n
             /\ SliceTo(b, Len(v)) = v
             /\ b[Len(v) + 1] >= 128
             /\ b[Len(v) + 1] = ExplicitStatus(e)
             /\ e.type = "ChannelEvent" =>
                    SubSeq(b, Len(v) + 2, n) = ChannelData(e)
             /\ ExplicitEncoding(Tail(t), SliceFrom(b, n))

\* every event of t has its fields in the ranges of the data model
InRange(t) == \A j \in 1..Len(t) : t[j] \notin OtherEvents

\* C23: under SpecEnc, the chunk of a track of events in range is, for each
\* event in order, the VLQ of its delta-time, an explicit status byte with the
\* high bit set and the data bytes of the event, also when two channel events
\* in a row have the same status byte.
C23_NoRunningStatus ==
    (pc # "chunk" /\ InRange(track)) => ExplicitEncoding(track, buf)

C23_Witness ==
    /\ pc # "chunk"
    /\ Len(track) = 2
    /\ track[1].type = "ChannelEvent"
    /\ track[2].type = "ChannelEvent"
    /\ InRange(track)
    /\ StatusOf(track[1]) = StatusOf(track[2])
    /\ buf = <<0, 144, 64, 96, 0, 144, 64, 96>>

(***************************************************************************)
(* Properties of the system common decoders.                               *)
(***************************************************************************)
\* the kind and the data byte count a system common status byte stands for
CommonKindOf(b) ==
    CASE b = 242 -> SongPositionPointer
      [] b = 243 -> SongSelect
      [] b = 246 -> TuneRequest

CommonValuesOf(b) == CASE b = 242 -> 2 [] b = 243 -> 1 [] b = 246 -> 0

\* a | b
Or(a, b) == (a + b) - And(a, b)

\* C24, the step: an iteration that reads status byte 0xF2, 0xF3 or 0xF6
\* fails when fewer than 2, 1 or 0 bytes follow it; otherwise it appends a
\* SongPositionPointer, SongSelect or TuneRequest event and consumes exactly
\* that many bytes behind the status byte; the value of SongSelect is its data
\* byte, the value of SongPositionPointer is (byte2 << 7) | byte1.
C24_Step ==
    (AtStatusPosition /\ StatusPosition \in {242, 243, 246}) =>
        LET s == StatusPosition
            d == SliceFrom(BehindDelta, 1)
            n == CommonValuesOf(s)
        IN  IF Len(d) < n
            THEN FailsWith(ErrCommon)
            ELSE LET e == Last(events')
                 IN  /\ Len(events') = Len(events) + 1
                     /\ events' = Append(events, e)
                     /\ e.type = "SystemCommonEvent"
                     /\ e.eventType = CommonKindOf(s)
                     /\ e.deltaTime = NextDelta.result
                     /\ Last(consumed').body = SliceTo(d, n)
                     /\ data' = SliceFrom(d, n)
                     /\ s = 243 => e.Value1 = d[1]
                     /\ s = 242 => e.Value1 = Or(d[2] * 128, d[1])

\* C24: under Spec, every iteration is as the step says.
C24_SystemCommonDecode == [][C24_Step]_vars

(***************************************************************************)
(* Properties of the loop of Chunk.Events.                                 *)
(***************************************************************************)
\* C25: under Spec, Chunk.Events on the payload of zero bytes returns the
\* empty event sequence and no error, without an iteration of the loop.
C25_EmptyPayload ==
    (cData = <<>> /\ pc = "returned") =>
        (retErr = Nil /\ retEvents = <<>>)

\* b is the end of a, from some index on
IsSuffix(b, a) == Len(b) <= Len(a) /\ b = SliceFrom(a, Len(a) - Len(b))

\* C26, the step: an iteration of the loop returns an error and no event, or
\* appends one event and leaves a buffer that is the end of the one it began
\* with, at least 2 bytes shorter.
C26_Step ==
    pc = "events" =>
        \/ /\ pc' = "returned"
           /\ retErr' # Nil
           /\ events' = events
        \/ /\ Len(events') = Len(events) + 1
           /\ Len(data') + 2 <= Len(data)
           /\ IsSuffix(data', data)

\* C26, the bound: the buffer is an end of the payload, and every decoded
\* event took at least 2 bytes of what is in front of it.
C26_Bounded ==
    /\ IsSuffix(data, cData)
    /\ 2 * Len(events) <= Len(cData) - Len(data)

\* C26: under Spec, every iteration of the loop fails or shortens the buffer
\* by at least 2 bytes, so the length of the buffer bounds the number of
\* iterations left; the number of events is at most half the number of bytes
\* consumed, and the buffer never leaves the payload.
C26_Terminates ==
    /\ [][C26_Step]_vars
    /\ []C26_Bounded

C26_Witness ==
    /\ pc = "returned"
    /\ retErr = Nil
    /\ cData = <<0, 248, 0, 248, 0, 248>>
    /\ Len(retEvents) = 3
    /\ data = <<>>

\* the bytes the decoded events were read from, in order
RECURSIVE Flatten(_)
Flatten(cs) ==
    IF cs = <<>>
    THEN <<>>
    ELSE Head(cs).delta \o Head(cs).status \o Head(cs).body \o Flatten(Tail(cs))

\* b is one whole VLQ
WholeVLQ(b) == Len(b) >= 1 /\ FirstClear(b) = Len(b)

\* the bytes c are those of event e: a whole VLQ, a status byte with the high
\* bit set or none under running status, and the data bytes of the variant
BytesOfEvent(e, c) ==
    /\ WholeVLQ(c.delta)
    /\ c.status = <<>> \/ (Len(c.status) = 1 /\ c.status[1] >= 128)
    /\ c.status = <<>> => e.type = "ChannelEvent"
    /\ e.type = "ChannelEvent" =>
           Len(c.body) = (IF e.eventType \in {ProgramChange, ChannelPressure}
                          THEN 1 ELSE 2)
    /\ e.type = "SystemCommonEvent" =>
           Len(c.body) = (CASE e.eventType = SongPositionPointer -> 2
                            [] e.eventType = SongSelect -> 1
                            [] OTHER -> 0)
    /\ e.type = "SystemRealTimeEvent" => c.body = <<>>
    /\ e.type = "SystemExclusiveEvent" =>
           /\ WholeVLQ(LengthBytes(e, c))
           /\ c.body = LengthBytes(e, c) \o e.Data
    /\ e.type = "MetaEvent" =>
           /\ WholeVLQ(LengthBytes(e, c))
           /\ c.body = <<e.MetaType>> \o LengthBytes(e, c) \o e.Data

\* the payload is the bytes of the returned events, in order, each byte once
C27_Partition ==
    (pc = "returned" /\ retErr = Nil) =>
        /\ Len(consumed) = Len(retEvents)
        /\ Flatten(consumed) = cData
        /\ \A i \in 1..Len(retEvents) : BytesOfEvent(retEvents[i], consumed[i])

\* the delta-time of every returned event is the number its VLQ denotes
C27_DeltaTimes ==
    (pc = "returned" /\ retErr = Nil) =>
        \A i \in 1..Len(retEvents) :
            StripZeros(U32Groups(retEvents[i].deltaTime))
                = StripZeros(LowGroups(consumed[i].delta, Len(consumed[i].delta)))

\* C27: under Spec, when Chunk.Events returns events, the payload is the
\* concatenation, in the order of the events, of the bytes each event was
\* read from (delta-time VLQ, status byte when there is one, data bytes of the
\* variant), and the delta-time of each event is the value of the VLQ in front
\* of it.
C27_ExactConsumption == C27_Partition /\ C27_DeltaTimes

(***************************************************************************)
(* Properties of the running status.                                       *)
(***************************************************************************)
\* C28: under Spec, while running status is active the running status byte is
\* a channel status byte (high nibble 0x8..0xE), and every event read without
\* a status byte of its own is a channel event of the kind and channel of a
\* channel status byte.
C28_ChannelRunningStatus ==
    /\ runningStatusActive => runningStatusByte \div 16 \in 8..14
    /\ \A i \in 1..Len(events) :
           consumed[i].status = <<>> =>
               /\ events[i].type = "ChannelEvent"
               /\ events[i].eventType \in NoteOff..PitchWheelChange
               /\ events[i].Channel \in 0..15
               /\ \E j \in 1..(i - 1) :
                      /\ consumed[j].status # <<>>
                      /\ consumed[j].status[1] = StatusOf(events[i])
                      /\ \A k \in (j + 1)..(i - 1) :
                             \/ consumed[k].status = <<>>
                             \/ consumed[k].status[1] \in 248..255

C28_Witness ==
    /\ pc = "returned"
    /\ retErr = Nil
    /\ runningStatusActive
    /\ runningStatusByte = 144
    /\ cData = <<0, 144, 64, 96, 0, 248, 0, 65, 97>>
    /\ Len(events) = 3
    /\ consumed[3].status = <<>>
    /\ events[3].eventType = NoteOn

\* C29, the meta step: an iteration that reads status byte 0xFF and appends a
\* meta event leaves runningStatusActive and runningStatusByte as they were.
C29_MetaStep ==
    (/\ AtStatusPosition
     /\ StatusPosition = 255
     /\ Len(events') = Len(events) + 1) =>
        /\ Last(events').type = "MetaEvent"
        /\ runningStatusActive' = runningStatusActive
        /\ runningStatusByte' = runningStatusByte

\* C29, the step behind a meta event: a data byte in status position directly
\* behind a meta event fails the decode with the data byte error when running
\* status is not active; when it is active with byte b, the iteration appends
\* a channel event of the kind and channel of b with the data byte as its
\* first data byte, or fails for the data bytes that kind lacks.
C29_BehindMetaStep ==
    (/\ AtStatusPosition
     /\ StatusPosition < 128
     /\ events # <<>>
     /\ Last(events).type = "MetaEvent") =>
        IF ~runningStatusActive
        THEN FailsWith(ErrDataByte)
        ELSE IF Len(BehindDelta) < NumValuesOf(runningStatusByte)
        THEN FailsWith(ErrChannel)
        ELSE /\ Len(events') = Len(events) + 1
             /\ Last(events').type = "ChannelEvent"
             /\ StatusOf(Last(events')) = runningStatusByte
             /\ Last(consumed').status = <<>>
             /\ Last(consumed').body[1] = StatusPosition

\* C29: under Spec, a meta event leaves the running status unchanged, for the
\* iteration that reads it and for the data byte in status position behind it.
C29_MetaKeepsRunningStatus == [][C29_MetaStep /\ C29_BehindMetaStep]_vars

C29_Witness ==
    /\ pc = "returned"
    /\ retErr = Nil
    /\ cData = <<0, 144, 64, 96, 0, 255, 47, 0, 0, 65, 97>>
    /\ Len(retEvents) = 3
    /\ retEvents[2].type = "MetaEvent"
    /\ consumed[3].status = <<>>
    /\ retEvents[3].type = "ChannelEvent"
    /\ retEvents[3].eventType = NoteOn
    /\ retEvents[3].Channel = 0
    /\ retEvents[3].Value1 = 65
    /\ runningStatusActive
    /\ runningStatusByte = 144

\* a meta event read while running status is not active, a data byte behind it
C29_WitnessInactive ==
    /\ pc = "returned"
    /\ retErr = ErrDataByte
    /\ cData = <<0, 255, 47, 0, 0, 65, 97>>
    /\ Len(events) = 1
    /\ ~runningStatusActive

(***************************************************************************)
(* Properties of the end of the payload.                                   *)
(***************************************************************************)
\* C30, the step: an iteration that finds a whole delta-time VLQ and no byte
\* behind it returns nil and the expected event error, whatever number of
\* events was appended before.
C30_Step ==
    (/\ pc = "events"
     /\ NextDelta.err = Nil
     /\ Len(data) = NextDelta.bytesRead) =>
        FailsWith(ErrExpectedEvent)

\* C30, the return: the expected event error comes with nil, not with the
\* events decoded in front of the delta-time.
C30_Returned ==
    (pc = "returned" /\ retErr = ErrExpectedEvent) =>
        /\ retEvents = NilEvents
        /\ WholeVLQ(data) \/ data = <<>>

\* C30: under Spec, a payload that ends behind a delta-time fails the decode
\* with the expected event error and returns no events.
C30_ExpectedAnotherEvent == [][C30_Step]_vars /\ []C30_Returned

C30_Witness ==
    /\ pc = "returned"
    /\ retErr = ErrExpectedEvent
    /\ retEvents = NilEvents
    /\ cData = <<0, 144, 64, 96, 0, 248, 129, 0>>
    /\ Len(events) = 2

\* the same at the start of the track
C30_WitnessAtStart ==
    /\ pc = "returned"
    /\ retErr = ErrExpectedEvent
    /\ retEvents = NilEvents
    /\ cData = <<0>>
    /\ events = <<>>

====
